---- MODULE Spec2Model ----
(***************************************************************************)
(* Model of start.py: the activities (Airer, MilkFeeding, Meal, Sleep,     *)
(* Laundry), the Baby hunger model, the DailyReporter and the EventManager *)
(* driven by the loop of main().  Time is counted in minutes since 00:00   *)
(* of the day the simulation starts.                                       *)
(***************************************************************************)
EXTENDS Integers, Sequences, FiniteSets, TLC

VARIABLES conf, now, i, status, elapsed, sched, lastFed, interval,
          waiting, queue, count, ongoing, freetime, feedings, interventions,
          failed, pc, tick

vars == <<conf, now, i, status, elapsed, sched, lastFed, interval,
          waiting, queue, count, ongoing, freetime, feedings, interventions,
          failed, pc, tick>>

----------------------------------------------------------------------------
(* Bounds of the model *)

\* ticks of the driver loop explored for the configuration of main()
MainTicks == 200
\* ticks explored for the configuration of main() driven with a 5-minute step
CoarseTicks == 320
\* ticks explored for the small configurations
SmallTicks == 24
\* calls made on an activity on its own
UnitCalls == 14
\* ticks explored for the configuration of main() with varied hunger
\* intervals: a day and a half
TypicalTicks == 2160

----------------------------------------------------------------------------
(* Program constants *)

NUM_MINS == 60
NUM_HOURS == 24
Day == NUM_MINS * NUM_HOURS
\* Event._schedule = None, EventManager._ongoing_event = None
NoSchedule == -1
NoEvent == 0
\* Laundry._washing_duration
WashingDuration == 120
\* datetime(2023, 4, 2, 7, 0) as minutes since midnight
MainStart == 7 * NUM_MINS

HHMM(h, m) == h * NUM_MINS + m

----------------------------------------------------------------------------
(* Activities as constructed by the classes *)

Meal(prio, schedule, durations, skip) ==
    [kind |-> "Meal", priority |-> prio, daily |-> schedule, skip |-> skip,
     durs |-> durations, airer |-> NoEvent]

Airer ==
    [kind |-> "Airer", priority |-> 5, daily |-> 0, skip |-> FALSE,
     durs |-> <<10, 20>>, airer |-> NoEvent]

\* mutant: a feeding is as urgent as the other activities
MilkFeedingOrdinary ==
    [kind |-> "MilkFeeding", priority |-> 5, daily |-> 0, skip |-> FALSE,
     durs |-> <<10, 30, 5>>, airer |-> NoEvent]

MilkFeeding ==
    [kind |-> "MilkFeeding", priority |-> 0, daily |-> 0, skip |-> FALSE,
     durs |-> <<10, 30, 5>>, airer |-> NoEvent]

Sleep(skip) ==
    [kind |-> "Sleep", priority |-> 5, daily |-> HHMM(23, 0), skip |-> skip,
     durs |-> <<8 * NUM_MINS>>, airer |-> NoEvent]

Laundry(airerEvent, skip) ==
    [kind |-> "Laundry", priority |-> 5, daily |-> HHMM(9, 0), skip |-> skip,
     durs |-> <<10>>, airer |-> airerEvent]

RECURSIVE SumSeq(_)
SumSeq(s) == IF s = <<>> THEN 0 ELSE s[1] + SumSeq(Tail(s))

\* Event._duration
Duration(ev) == SumSeq(ev.durs)

IsDaily(ev) == ev.kind \in {"Meal", "Sleep", "Laundry"}

\* the events list of main(): breakfast, lunch, dinner, airer, laundry,
\* MilkFeeding, Sleep
MainEvents ==
    << Meal(5, HHMM(8, 0), <<15, 10, 10>>, FALSE),
       Meal(5, HHMM(12, 0), <<30, 15, 10>>, FALSE),
       Meal(5, HHMM(18, 0), <<45, 30, 15>>, FALSE),
       Airer,
       Laundry(4, FALSE),
       MilkFeeding,
       Sleep(FALSE) >>

Kind(e) == conf.events[e].kind
Events == 1..Len(conf.events)

----------------------------------------------------------------------------
(* heapq on a list of (priority, count, event) tuples; positions are the   *)
(* 0-based positions of the Python list                                     *)

\* mutant: ties of priority broken towards the later admission
TupleLessLifo(a, b) == a[1] < b[1] \/ (a[1] = b[1] /\ a[2] > b[2])

\* tuple comparison: the counts are unique, so the events are never compared
TupleLess(a, b) == a[1] < b[1] \/ (a[1] = b[1] /\ a[2] < b[2])

RECURSIVE SiftDown(_, _, _, _)
SiftDown(heap, newitem, startpos, pos) ==
    IF pos > startpos
    THEN LET parentpos == (pos - 1) \div 2
             parent == heap[parentpos + 1]
         IN  IF TupleLess(newitem, parent)
             THEN SiftDown([heap EXCEPT ![pos + 1] = parent], newitem,
                           startpos, parentpos)
             ELSE [heap EXCEPT ![pos + 1] = newitem]
    ELSE [heap EXCEPT ![pos + 1] = newitem]

RECURSIVE SiftUp(_, _, _, _)
SiftUp(heap, newitem, startpos, pos) ==
    LET endpos == Len(heap)
        childpos == 2 * pos + 1
        rightpos == childpos + 1
        smaller == IF rightpos < endpos
                      /\ ~TupleLess(heap[childpos + 1], heap[rightpos + 1])
                   THEN rightpos ELSE childpos
    IN  IF childpos < endpos
        THEN SiftUp([heap EXCEPT ![pos + 1] = heap[smaller + 1]], newitem,
                    startpos, smaller)
        ELSE SiftDown(heap, newitem, startpos, pos)

\* mutant: the item pushed becomes the head
HeapPushFront(heap, item) == <<item>> \o heap

HeapPush(heap, item) ==
    SiftDown(Append(heap, item), item, 0, Len(heap))

\* the heap left by heapq.heappop (the item returned is heap[1])
HeapPop(heap) ==
    LET lastelt == heap[Len(heap)]
        rest == SubSeq(heap, 1, Len(heap) - 1)
    IN  IF rest # <<>> THEN SiftUp(rest, lastelt, 0, 0) ELSE <<>>

----------------------------------------------------------------------------
(* Baby *)

\* Baby.fed: the interval drawn is the input `draw`
BabyFed(w, current_time, draw) ==
    [w EXCEPT !.lastFed = current_time, !.interval = draw]

BabyIsHungry(w, current_time) == current_time - w.lastFed >= w.interval

----------------------------------------------------------------------------
(* The activities' methods.  Each takes the record w of the program's      *)
(* state and returns it as the method leaves it; w.failed records a failed *)
(* assertion, w.ret the value returned by is_ready.                        *)

Fail(w) == [w EXCEPT !.failed = TRUE]

Note(w, n) == [w EXCEPT !.notes = Append(@, n)]

\* mutant: ready only after the timestamp has passed
AirerIsReadyLate(w, e, t) ==
    IF w.status[e] # "PENDING" THEN Fail(w)
    ELSE IF w.sched[e] = NoSchedule THEN [w EXCEPT !.ret = FALSE]
    ELSE IF t > w.sched[e]
         THEN [w EXCEPT !.status[e] = "READY", !.ret = TRUE]
         ELSE [w EXCEPT !.ret = FALSE]

AirerIsReady(w, e, t) ==
    IF w.status[e] # "PENDING" THEN Fail(w)
    ELSE IF w.sched[e] = NoSchedule THEN [w EXCEPT !.ret = FALSE]
    ELSE IF t >= w.sched[e]
         THEN [w EXCEPT !.status[e] = "READY", !.ret = TRUE]
         ELSE [w EXCEPT !.ret = FALSE]

MilkIsReady(w, e, t) ==
    IF BabyIsHungry(w, t)
    THEN [w EXCEPT !.status[e] = "READY", !.ret = TRUE]
    ELSE [w EXCEPT !.ret = FALSE]

DailyIsReady(w, e, t) ==
    IF w.status[e] # "PENDING" THEN Fail(w)
    ELSE IF t >= w.sched[e]
         THEN [w EXCEPT !.status[e] = "READY", !.ret = TRUE]
         ELSE [w EXCEPT !.ret = FALSE]

IsReady(w, e, t) ==
    CASE Kind(e) = "Airer" -> AirerIsReady(w, e, t)
      [] Kind(e) = "MilkFeeding" -> MilkIsReady(w, e, t)
      [] OTHER -> DailyIsReady(w, e, t)

Runnable == {"READY", "RUNNING", "PAUSED"}

\* mutant: a resumed event starts over
AdvanceRestart(w, e, stp) ==
    [w EXCEPT !.elapsed[e] = IF w.status[e] = "PAUSED" THEN stp ELSE @ + stp,
              !.notes = IF w.status[e] = "PAUSED"
                        THEN Append(@, <<e, "resumed">>) ELSE @,
              !.status[e] = "RUNNING"]

\* the common head of Airer/Meal/Sleep/Laundry.process after the assertion:
\* the elapsed time is advanced, a paused event is resumed, the status
\* becomes RUNNING
Advance(w, e, stp) ==
    [w EXCEPT !.elapsed[e] = @ + stp,
              !.notes = IF w.status[e] = "PAUSED"
                        THEN Append(@, <<e, "resumed">>) ELSE @,
              !.status[e] = "RUNNING"]

AirerNotifyWashing(w, e, end_schedule) ==
    [w EXCEPT !.sched[e] = end_schedule]

\* the three independent ifs of Airer.process
AirerPhases(w, e, stp) ==
    LET d == conf.events[e].durs
        el == w.elapsed[e]
    IN  [w EXCEPT !.notes = @ \o (IF el = stp THEN <<<<e, "started">>>> ELSE <<>>)
                            \o (IF el = d[1] THEN <<<<e, "phase1">>>> ELSE <<>>)
                            \o (IF el = d[1] + d[2]
                                THEN <<<<e, "completed">>>> ELSE <<>>),
                  !.status[e] = IF el = d[1] + d[2] THEN "COMPLETED" ELSE @]

AirerProcess(w, e, t, stp) ==
    IF w.status[e] \notin Runnable THEN Fail(w)
    ELSE AirerPhases(Advance(w, e, stp), e, stp)

\* the four independent ifs of MilkFeeding.process
MilkPhases(w, e, t, stp, draw) ==
    LET d == conf.events[e].durs
        el == w.elapsed[e]
        done == el = d[1] + d[2] + d[3]
    IN  [w EXCEPT !.notes = @ \o (IF el = stp THEN <<<<e, "started">>>> ELSE <<>>)
                            \o (IF el = d[1] THEN <<<<e, "phase1">>>> ELSE <<>>)
                            \o (IF el = d[1] + d[2]
                                THEN <<<<e, "phase2">>>> ELSE <<>>)
                            \o (IF done THEN <<<<e, "completed">>>> ELSE <<>>),
                  !.feedings = IF el = d[1] + d[2] THEN @ + 1 ELSE @,
                  !.lastFed = IF done THEN BabyFed(w, t + stp, draw).lastFed
                              ELSE @,
                  !.interval = IF done THEN BabyFed(w, t + stp, draw).interval
                               ELSE @,
                  !.status[e] = IF done THEN "COMPLETED" ELSE @]

\* no assertion, and the status is left as it is until completion
MilkProcess(w, e, t, stp, draw) ==
    MilkPhases([w EXCEPT !.elapsed[e] = @ + stp], e, t, stp, draw)

\* mutant: the meal is completed when the eating is over
MealPhasesSkipCleanup(w, e, stp) ==
    LET d == conf.events[e].durs
        el == w.elapsed[e]
    IN  IF el = stp THEN Note(w, <<e, "started">>)
        ELSE IF el = d[1] THEN Note(w, <<e, "phase1">>)
        ELSE IF el = d[1] + d[2]
             THEN [w EXCEPT !.status[e] = "COMPLETED",
                            !.notes = Append(@, <<e, "completed">>)]
        ELSE w

\* the if/elif chain of Meal.process
MealPhases(w, e, stp) ==
    LET d == conf.events[e].durs
        el == w.elapsed[e]
    IN  IF el = stp THEN Note(w, <<e, "started">>)
        ELSE IF el = d[1] THEN Note(w, <<e, "phase1">>)
        ELSE IF el = d[1] + d[2] THEN Note(w, <<e, "phase2">>)
        ELSE IF el = d[1] + d[2] + d[3]
             THEN [w EXCEPT !.status[e] = "COMPLETED",
                            !.notes = Append(@, <<e, "completed">>)]
        ELSE w

MealProcess(w, e, t, stp) ==
    IF w.status[e] \notin Runnable THEN Fail(w)
    ELSE MealPhases(Advance(w, e, stp), e, stp)

\* the if/elif chain of Sleep.process
SleepPhases(w, e, stp) ==
    LET el == w.elapsed[e]
    IN  IF el = stp THEN Note(w, <<e, "started">>)
        ELSE IF el = conf.events[e].durs[1]
             THEN [w EXCEPT !.status[e] = "COMPLETED",
                            !.notes = Append(@, <<e, "completed">>)]
        ELSE w

SleepProcess(w, e, t, stp) ==
    IF w.status[e] \notin Runnable THEN Fail(w)
    ELSE SleepPhases(Advance(w, e, stp), e, stp)

\* the if/elif chain of Laundry.process; completion arms the airer
LaundryPhases(w, e, t, stp) ==
    LET el == w.elapsed[e]
    IN  IF el = stp THEN Note(w, <<e, "started">>)
        ELSE IF el = conf.events[e].durs[1]
             THEN AirerNotifyWashing(
                      [w EXCEPT !.status[e] = "COMPLETED",
                                !.notes = Append(@, <<e, "completed">>)],
                      conf.events[e].airer, t + stp + WashingDuration)
        ELSE w

LaundryProcess(w, e, t, stp) ==
    IF w.status[e] \notin Runnable THEN Fail(w)
    ELSE LaundryPhases(Advance(w, e, stp), e, t, stp)

Process(w, e, t, stp, draw) ==
    CASE Kind(e) = "Airer" -> AirerProcess(w, e, t, stp)
      [] Kind(e) = "MilkFeeding" -> MilkProcess(w, e, t, stp, draw)
      [] Kind(e) = "Meal" -> MealProcess(w, e, t, stp)
      [] Kind(e) = "Sleep" -> SleepProcess(w, e, t, stp)
      [] OTHER -> LaundryProcess(w, e, t, stp)

AirerPause(w, e) ==
    IF w.status[e] # "RUNNING" THEN Fail(w)
    ELSE [w EXCEPT !.status[e] = "PAUSED",
                   !.notes = Append(@, <<e, "suspended">>)]

MilkPause(w, e) == w

DailyPause(w, e) ==
    IF w.status[e] # "RUNNING" THEN Fail(w)
    ELSE [w EXCEPT !.status[e] = "PAUSED",
                   !.notes = Append(@, <<e, "suspended">>)]

Pause(w, e) ==
    CASE Kind(e) = "Airer" -> AirerPause(w, e)
      [] Kind(e) = "MilkFeeding" -> MilkPause(w, e)
      [] OTHER -> DailyPause(w, e)

AirerFinalize(w, e) ==
    IF w.status[e] # "COMPLETED" THEN Fail(w)
    ELSE [w EXCEPT !.status[e] = "PENDING", !.elapsed[e] = 0,
                   !.sched[e] = NoSchedule]

\* mutant: the elapsed time is not reset
MilkFinalizeKeepsElapsed(w, e) ==
    [w EXCEPT !.status[e] = "PENDING"]

MilkFinalize(w, e) ==
    [w EXCEPT !.status[e] = "PENDING", !.elapsed[e] = 0]

\* mutant: the next schedule is a day after the tick of completion
DailyFinalizeFromNow(w, e) ==
    IF w.status[e] # "COMPLETED" THEN Fail(w)
    ELSE [w EXCEPT !.status[e] = "PENDING", !.elapsed[e] = 0,
                   !.sched[e] = w.at + Day]

DailyFinalize(w, e) ==
    IF w.status[e] # "COMPLETED" THEN Fail(w)
    ELSE [w EXCEPT !.status[e] = "PENDING", !.elapsed[e] = 0,
                   !.sched[e] = @ + Day]

Finalize(w, e) ==
    CASE Kind(e) = "Airer" -> AirerFinalize(w, e)
      [] Kind(e) = "MilkFeeding" -> MilkFinalize(w, e)
      [] OTHER -> DailyFinalize(w, e)

----------------------------------------------------------------------------
(* EventManager *)

\* list.remove: the first occurrence goes
Remove(list, e) ==
    LET k == CHOOSE j \in 1..Len(list) :
                 list[j] = e /\ \A m \in 1..(j - 1) : list[m] # e
    IN  SubSeq(list, 1, k - 1) \o SubSeq(list, k + 1, Len(list))

\* mutant: the admitted event stays in the list of events to check
AdmitKeepsWaiting(w, e) ==
    [w EXCEPT !.queue = HeapPush(@, <<conf.events[e].priority, w.count, e>>),
              !.count = @ + 1,
              !.admitted = Append(@, e)]

\* the body of the if in _check_conditions: heappush, remove, count += 1
Admit(w, e) ==
    [w EXCEPT !.queue = HeapPush(@, <<conf.events[e].priority, w.count, e>>),
              !.waiting = Remove(@, e),
              !.count = @ + 1,
              !.admitted = Append(@, e)]

\* the for loop of _check_conditions: idx is the (1-based) position of the
\* list iterator, which moves on by one after every element, also after an
\* element that the body has removed from the list
RECURSIVE CheckLoop(_, _, _)
CheckNext(w, e, idx, t) ==
    IF w.failed THEN w
    ELSE IF w.ret THEN CheckLoop(Admit(w, e), idx + 1, t)
    ELSE CheckLoop(w, idx + 1, t)

CheckLoop(w, idx, t) ==
    IF idx > Len(w.waiting) THEN w
    ELSE CheckNext(IsReady([w EXCEPT !.checked = Append(@, w.waiting[idx])],
                           w.waiting[idx], t),
                   w.waiting[idx], idx, t)

\* mutant: free time is reported whether or not the queue is empty
QueueNotEmptyAlwaysFree(w, stp) ==
    IF w.failed THEN w
    ELSE [w EXCEPT !.freetime = @ + stp, !.idle = @ + stp,
                   !.ret = Len(w.queue) # 0, !.swept = w.queue]

\* the tail of _check_conditions; w.ret is the value returned
QueueNotEmpty(w, stp) ==
    IF w.failed THEN w
    ELSE IF Len(w.queue) = 0
    THEN [w EXCEPT !.freetime = @ + stp, !.idle = @ + stp, !.ret = FALSE,
                   !.swept = w.queue]
    ELSE [w EXCEPT !.ret = TRUE, !.swept = w.queue]

CheckConditions(w, t, stp) == QueueNotEmpty(CheckLoop(w, 1, t), stp)

\* type(event) != type(self._ongoing_event) and self._ongoing_event != None
PriorityChanged(w, e) ==
    w.ongoing # NoEvent /\ Kind(e) # Kind(w.ongoing)

\* self._reporter.update_intervention(), reached when pause() returned
Intervene(w) ==
    IF w.failed THEN w
    ELSE [w EXCEPT !.interventions = @ + 1, !.intervened = @ + 1]

\* the head of the queue is chosen, the old event suspended
Select(w, e) ==
    IF w.failed THEN w
    ELSE IF PriorityChanged(w, e)
    THEN Intervene(Pause([w EXCEPT !.paused = w.ongoing], w.ongoing))
    ELSE w

\* self._ongoing_event = event; event.process(now, step)
Run(w, e, t, stp, draw) ==
    IF w.failed THEN w
    ELSE Process([w EXCEPT !.ongoing = e, !.adv = e,
                           !.advFrom = w.elapsed[e]], e, t, stp, draw)

\* mutant: the finalized event is not put back
RequeueDropped(w, e) == w

\* self._events_to_check.append(event)
Requeue(w, e) ==
    IF w.failed THEN w ELSE [w EXCEPT !.waiting = Append(@, e)]

\* mutant: the marker of the running event is not cleared on completion
RetireKeepsMarker(w, e) ==
    IF w.failed THEN w
    ELSE IF w.status[e] = "COMPLETED"
    THEN Requeue(Finalize([w EXCEPT !.advTo = w.elapsed[e],
                                    !.advStatus = w.status[e],
                                    !.queue = HeapPop(@),
                                    !.retired = w.queue[1][3]],
                          w.queue[1][3]),
                 w.queue[1][3])
    ELSE [w EXCEPT !.advTo = w.elapsed[e], !.advStatus = w.status[e]]

\* if event._status == COMPLETED: heappop, finalize, append
Retire(w, e) ==
    IF w.failed THEN w
    ELSE IF w.status[e] = "COMPLETED"
    THEN Requeue(Finalize([w EXCEPT !.advTo = w.elapsed[e],
                                    !.advStatus = w.status[e],
                                    !.ongoing = NoEvent,
                                    !.queue = HeapPop(@),
                                    !.retired = w.queue[1][3]],
                          w.queue[1][3]),
                 w.queue[1][3])
    ELSE [w EXCEPT !.advTo = w.elapsed[e], !.advStatus = w.status[e]]

ProcessNextEvent(w, t, stp, draw) ==
    Retire(Run(Select(w, w.queue[1][3]), w.queue[1][3], t, stp, draw),
           w.queue[1][3])

ProcessIfNotEmpty(w, t, stp, draw) ==
    IF ~w.failed /\ w.ret THEN ProcessNextEvent(w, t, stp, draw) ELSE w

\* EventManager.process
ManagerProcess(w, t, stp, draw) ==
    ProcessIfNotEmpty(CheckConditions(w, t, stp), t, stp, draw)

----------------------------------------------------------------------------
(* DailyReporter *)

\* now.day != (now + step).day: print the summary and reset the counters
TryPrint(w, t, stp) ==
    IF w.failed THEN w
    ELSE IF t \div Day # (t + stp) \div Day
    THEN [w EXCEPT !.freetime = 0, !.feedings = 0, !.interventions = 0]
    ELSE w

----------------------------------------------------------------------------
(* Configurations: the activities constructed, the step of the driver, the *)
(* time the simulation starts at, the hunger intervals the Baby may draw   *)
(* (np.random.normal yields any real; with whole-minute times an interval  *)
(* acts as its ceiling in minutes), whether add_event is called in the     *)
(* order of the list or in any order, and the ticks explored.              *)

\* for _ in range(NUM_MINS * NUM_HOURS * NUM_DAYS)
NUM_DAYS == 3
TotalTicks == NUM_MINS * NUM_HOURS * NUM_DAYS

\* main(), explored for MainTicks ticks
MainConf ==
    [name |-> "main", events |-> MainEvents, step |-> 1, start |-> MainStart,
     draws |-> {0, 60, 120}, anyOrder |-> FALSE, ticks |-> MainTicks]

\* main() with every hunger interval drawn at or below zero, run to its end
HungryConf ==
    [name |-> "hungry", events |-> MainEvents, step |-> 1, start |-> MainStart,
     draws |-> {-30, 0}, anyOrder |-> FALSE, ticks |-> TotalTicks]

\* the breakfast of main() alone
BreakfastConf ==
    [name |-> "breakfast", events |-> <<MainEvents[1]>>, step |-> 1,
     start |-> MainStart, draws |-> {120}, anyOrder |-> FALSE,
     ticks |-> MainTicks]

\* a feeding and a meal, registered in either order, 5-minute step
PairConf ==
    [name |-> "pair",
     events |-> <<MilkFeeding, Meal(5, HHMM(9, 0), <<10, 5, 5>>, FALSE)>>,
     step |-> 5, start |-> HHMM(8, 50), draws |-> {10, 20},
     anyOrder |-> TRUE, ticks |-> SmallTicks]

\* four meals: two of equal priority due together, one less urgent due with
\* them and one more urgent due later
MealsConf ==
    [name |-> "meals",
     events |-> <<Meal(5, HHMM(9, 0), <<5, 10, 5>>, FALSE),
                  Meal(5, HHMM(9, 0), <<10, 5, 5>>, FALSE),
                  Meal(3, HHMM(9, 10), <<5, 5, 5>>, FALSE),
                  Meal(7, HHMM(9, 0), <<5, 5, 5>>, FALSE)>>,
     step |-> 5, start |-> HHMM(8, 50), draws |-> {120},
     anyOrder |-> TRUE, ticks |-> SmallTicks]

\* washing, drying and feeding, 5-minute step
WashConf ==
    [name |-> "wash",
     events |-> <<Airer, Laundry(1, FALSE), MilkFeeding>>,
     step |-> 5, start |-> HHMM(8, 55), draws |-> {5, 140},
     anyOrder |-> TRUE, ticks |-> CoarseTicks]

\* a night: sleep, feeding and a meal of the next day, across midnight
NightConf ==
    [name |-> "night",
     events |-> <<Sleep(FALSE), MilkFeeding,
                  Meal(5, HHMM(0, 10), <<5, 5, 5>>, TRUE)>>,
     step |-> 5, start |-> HHMM(22, 50), draws |-> {60, 240},
     anyOrder |-> FALSE, ticks |-> CoarseTicks]

\* main() with every hunger interval a standard deviation below the mean of
\* 180 minutes, run to its end
SteadyConf ==
    [name |-> "steady", events |-> MainEvents, step |-> 1,
     start |-> MainStart, draws |-> {150}, anyOrder |-> FALSE,
     ticks |-> TotalTicks]

\* main() with hunger intervals a standard deviation below or above the
\* mean, explored for TypicalTicks ticks
TypicalConf ==
    [name |-> "typical", events |-> MainEvents, step |-> 1,
     start |-> MainStart, draws |-> {150, 210}, anyOrder |-> FALSE,
     ticks |-> TypicalTicks]

Configs == {MainConf, HungryConf, SteadyConf, TypicalConf, BreakfastConf,
            PairConf, MealsConf, WashConf, NightConf}

----------------------------------------------------------------------------
(* State *)

Range(f) == {f[k] : k \in DOMAIN f}

\* what the last call of EventManager.process did
NoTick ==
    [at |-> 0, startWaiting |-> <<>>, startOngoing |-> NoEvent,
     checked |-> <<>>, admitted |-> <<>>, idle |-> 0, swept |-> <<>>,
     paused |-> NoEvent, intervened |-> 0, adv |-> NoEvent, advFrom |-> 0,
     advTo |-> 0, advStatus |-> "PENDING", retired |-> NoEvent,
     notes |-> <<>>]

\* DailyEvent.__init__: today at the scheduled time, a day later with
\* skip_today; Airer.__init__: no schedule
FirstSchedule(ev, start) ==
    IF IsDaily(ev)
    THEN (start \div Day) * Day + ev.daily + (IF ev.skip THEN Day ELSE 0)
    ELSE NoSchedule

Init ==
    /\ conf \in Configs
    /\ now = conf.start
    /\ i = 0
    /\ status = [e \in Events |-> "PENDING"]
    /\ elapsed = [e \in Events |-> 0]
    /\ sched = [e \in Events |-> FirstSchedule(conf.events[e], conf.start)]
    /\ lastFed = conf.start
    /\ interval \in conf.draws
    /\ waiting = <<>>
    /\ queue = <<>>
    /\ count = 0
    /\ ongoing = NoEvent
    /\ freetime = 0
    /\ feedings = 0
    /\ interventions = 0
    /\ failed = FALSE
    /\ pc = "setup"
    /\ tick = NoTick

\* the record of the program's state handed to the methods, with what the
\* call observes cleared
World ==
    [status |-> status, elapsed |-> elapsed, sched |-> sched,
     lastFed |-> lastFed, interval |-> interval, waiting |-> waiting,
     queue |-> queue, count |-> count, ongoing |-> ongoing,
     freetime |-> freetime, feedings |-> feedings,
     interventions |-> interventions, failed |-> FALSE, ret |-> FALSE,
     at |-> now, startWaiting |-> waiting, startOngoing |-> ongoing,
     checked |-> <<>>, admitted |-> <<>>, idle |-> 0, swept |-> <<>>,
     paused |-> NoEvent, intervened |-> 0, adv |-> NoEvent, advFrom |-> 0,
     advTo |-> 0, advStatus |-> "PENDING", retired |-> NoEvent,
     notes |-> <<>>]

Observed(w) ==
    [at |-> w.at, startWaiting |-> w.startWaiting,
     startOngoing |-> w.startOngoing, checked |-> w.checked,
     admitted |-> w.admitted, idle |-> w.idle, swept |-> w.swept,
     paused |-> w.paused, intervened |-> w.intervened, adv |-> w.adv,
     advFrom |-> w.advFrom, advTo |-> w.advTo, advStatus |-> w.advStatus,
     retired |-> w.retired, notes |-> w.notes]

\* EventManager.add_event, called by main() for each event of its list
AddEvent ==
    /\ pc = "setup"
    /\ \E e \in Events \ Range(waiting) :
          /\ conf.anyOrder \/ e = Len(waiting) + 1
          /\ waiting' = Append(waiting, e)
    /\ pc' = IF Len(waiting') = Len(conf.events) THEN "loop" ELSE "setup"
    /\ UNCHANGED <<conf, now, i, status, elapsed, sched, lastFed, interval,
                   queue, count, ongoing, freetime, feedings, interventions,
                   failed, tick>>

\* the state the iteration leaves
Commit(w) ==
    /\ status' = w.status
    /\ elapsed' = w.elapsed
    /\ sched' = w.sched
    /\ lastFed' = w.lastFed
    /\ interval' = w.interval
    /\ waiting' = w.waiting
    /\ queue' = w.queue
    /\ count' = w.count
    /\ ongoing' = w.ongoing
    /\ freetime' = w.freetime
    /\ feedings' = w.feedings
    /\ interventions' = w.interventions
    /\ failed' = w.failed
    /\ tick' = Observed(w)
    /\ now' = IF w.failed THEN now ELSE now + conf.step
    /\ i' = IF w.failed THEN i ELSE i + 1
    /\ pc' = IF w.failed THEN "failed"
             ELSE IF i + 1 = TotalTicks THEN "done" ELSE "loop"

\* one iteration of the loop of main(): event_manager.process,
\* reporter.try_print, now += time_step; a failed assertion ends the program
Tick ==
    /\ pc = "loop"
    /\ i < conf.ticks
    /\ \E draw \in conf.draws :
          Commit(TryPrint(ManagerProcess(World, now, conf.step, draw),
                          now, conf.step))
    /\ UNCHANGED conf

Next == AddEvent \/ Tick

Spec == Init /\ [][Next]_vars

----------------------------------------------------------------------------
(* The activities on their own: a caller other than the EventManager       *)
(* constructs one activity (or a Laundry with its Airer) and calls         *)
(* is_ready, process, pause and finalize on it in any order and in any     *)
(* status.  A failed assertion ends the run.                               *)

\* step sizes of the caller, and phase lengths that are multiples of them
UnitSteps == {5, 10}
PhaseLengths(stp) == {stp, 2 * stp}

UnitConf(evs, stp, begin, intervals) ==
    [name |-> "unit", events |-> evs, step |-> stp, start |-> begin,
     draws |-> intervals, anyOrder |-> FALSE, ticks |-> UnitCalls]

\* a Meal of any phase lengths; a Sleep, whose 8 hours are one or two steps;
\* a Laundry with its Airer; a MilkFeeding
UnitConfigs ==
    { UnitConf(<<Meal(5, HHMM(9, 0), <<a, b, c>>, FALSE)>>, stp, HHMM(8, 55),
               {30}) :
          <<stp, a, b, c>> \in
             { x \in UnitSteps \X {5, 10, 20} \X {5, 10, 20} \X {5, 10, 20} :
                  /\ x[2] \in PhaseLengths(x[1])
                  /\ x[3] \in PhaseLengths(x[1])
                  /\ x[4] \in PhaseLengths(x[1]) } }
    \cup { UnitConf(<<Sleep(FALSE)>>, stp, HHMM(22, 0), {30}) :
              stp \in {4 * NUM_MINS, 8 * NUM_MINS} }
    \cup { UnitConf(<<Airer, Laundry(1, FALSE)>>, stp, HHMM(8, 0), {30}) :
              stp \in UnitSteps }
    \cup { UnitConf(<<MilkFeeding>>, 5, HHMM(9, 0), {0, 30}) }

UnitInit ==
    /\ conf \in UnitConfigs
    /\ now = conf.start
    /\ i = 0
    /\ status = [e \in Events |-> "PENDING"]
    /\ elapsed = [e \in Events |-> 0]
    /\ sched = [e \in Events |-> FirstSchedule(conf.events[e], conf.start)]
    /\ lastFed = conf.start
    /\ interval \in conf.draws
    /\ waiting = <<>>
    /\ queue = <<>>
    /\ count = 0
    /\ ongoing = NoEvent
    /\ freetime = 0
    /\ feedings = 0
    /\ interventions = 0
    /\ failed = FALSE
    /\ pc = "unit"
    /\ tick = NoTick

\* the state a call leaves; the caller's clock moves on by `passed`
UnitCommit(w, passed) ==
    /\ status' = w.status
    /\ elapsed' = w.elapsed
    /\ sched' = w.sched
    /\ lastFed' = w.lastFed
    /\ interval' = w.interval
    /\ feedings' = w.feedings
    /\ failed' = w.failed
    /\ tick' = Observed(w)
    /\ now' = IF w.failed THEN now ELSE now + passed
    /\ i' = i + 1
    /\ pc' = IF w.failed THEN "failed" ELSE "unit"
    /\ UNCHANGED <<conf, waiting, queue, count, ongoing, freetime,
                   interventions>>

\* event.is_ready(now); tick.checked names the event called
CallIsReady ==
    /\ pc = "unit"
    /\ i < conf.ticks
    /\ \E e \in Events :
          UnitCommit(IsReady([World EXCEPT !.checked = <<e>>], e, now), 0)

\* what process left of the event it was called on
Seen(w, e) ==
    [w EXCEPT !.advTo = w.elapsed[e], !.advStatus = w.status[e]]

\* event.process(now, step), after which the caller's clock moves on by a
\* step; tick.adv names the event called
CallProcess ==
    /\ pc = "unit"
    /\ i < conf.ticks
    /\ \E e \in Events, draw \in conf.draws :
          UnitCommit(Seen(Process([World EXCEPT !.adv = e,
                                                !.advFrom = elapsed[e]],
                                  e, now, conf.step, draw), e),
                     conf.step)

\* event.pause(now); tick.paused names the event called
CallPause ==
    /\ pc = "unit"
    /\ i < conf.ticks
    /\ \E e \in Events :
          UnitCommit(Pause([World EXCEPT !.paused = e], e), 0)

\* event.finalize(); tick.retired names the event called
CallFinalize ==
    /\ pc = "unit"
    /\ i < conf.ticks
    /\ \E e \in Events :
          UnitCommit(Finalize([World EXCEPT !.retired = e], e), 0)

\* time passes at the caller without a call
Elapse ==
    /\ pc = "unit"
    /\ i < conf.ticks
    /\ now' = now + WashingDuration
    /\ i' = i + 1
    /\ tick' = NoTick
    /\ UNCHANGED <<conf, status, elapsed, sched, lastFed, interval, waiting,
                   queue, count, ongoing, freetime, feedings, interventions,
                   failed, pc>>

UnitNext == CallIsReady \/ CallProcess \/ CallPause \/ CallFinalize \/ Elapse

UnitSpec == UnitInit /\ [][UnitNext]_vars

----------------------------------------------------------------------------
(* Properties *)

Priority(e) == conf.events[e].priority
Step == conf.step

\* the trigger condition of activity e at time t, in the current state:
\* the daily due time is reached, the baby is hungry, the armed Airer
\* timestamp is reached
TriggerHolds(e, t) ==
    CASE Kind(e) = "Airer" -> sched[e] # NoSchedule /\ t >= sched[e]
      [] Kind(e) = "MilkFeeding" -> t - lastFed >= interval
      [] OTHER -> t >= sched[e]

\* the trigger condition holds at this tick and did not hold a step earlier
FirstReady(e) == TriggerHolds(e, now) /\ ~TriggerHolds(e, now - Step)

\* the event at the head of the queue after the sweep of tick t, if any
HeadOf(t) == IF t.swept = <<>> THEN NoEvent ELSE t.swept[1][3]

\* C1: when a priority-0 MilkFeeding and a priority-5 activity, both in the
\* waiting list, have their trigger condition satisfied for the first time
\* at the same tick, that tick advances the MilkFeeding (and so not the
\* priority-5 activity), whatever their order in the waiting list.
C1_PriorityOrdering ==
    [][pc = "loop" =>
         \A m, e \in Range(waiting) :
            ( /\ Kind(m) = "MilkFeeding" /\ Priority(m) = 0
              /\ Priority(e) = 5
              /\ FirstReady(m) /\ FirstReady(e) )
            => tick'.adv = m]_vars

\* C2: in every tick is_ready(now) is evaluated on every activity that is in
\* the waiting list at the start of the tick, so every such activity whose
\* trigger condition holds at now has left the waiting list after the sweep.
C2_SweepComplete ==
    [][pc = "loop" /\ ~failed' =>
         \A e \in Range(waiting) :
            /\ e \in Range(tick'.checked)
            /\ TriggerHolds(e, now) => e \in Range(tick'.admitted)]_vars

\* the queue entry of event e in queue q
EntryOf(q, e) == CHOOSE x \in Range(q) : x[3] = e

\* C3: the admission sequence numbers in the queue are unique and below the
\* next number to assign, events admitted in one sweep get increasing
\* numbers, and the event a tick advances is the least queue entry by
\* (priority, sequence): among entries of equal priority it is never one
\* admitted later than another.
C3_TieBreak ==
    /\ \A a, b \in 1..Len(queue) : a # b => queue[a][2] # queue[b][2]
    /\ \A a \in 1..Len(queue) : queue[a][2] < count
    /\ ~failed =>
         \A j, k \in 1..Len(tick.admitted) :
            j < k => EntryOf(tick.swept, tick.admitted[j])[2]
                     < EntryOf(tick.swept, tick.admitted[k])[2]
    /\ tick.adv # NoEvent =>
         LET h == EntryOf(tick.swept, tick.adv)
         IN  \A x \in Range(tick.swept) \ {h} :
                h[1] < x[1] \/ (h[1] = x[1] /\ h[2] < x[2])

\* C3 witness: a tick advanced an event while another event of the same
\* priority, admitted later, was queued, and a third entry was queued too
C3_Witness ==
    /\ tick.adv # NoEvent
    /\ Len(tick.swept) >= 3
    /\ \E x \in Range(tick.swept) :
          /\ x[3] # tick.adv
          /\ x[1] = Priority(tick.adv)
          /\ x[2] > EntryOf(tick.swept, tick.adv)[2]

\* the tick crosses midnight, where try_print resets the reporter
Rollover == now \div Day # (now + Step) \div Day

\* C4: every call of EventManager.process either finds the queue empty after
\* the sweep, reports exactly one step of free time and changes no elapsed
\* progress, or finds it non-empty, reports no free time and adds exactly one
\* step to the elapsed progress of the queue head alone.
C4_TickAccounting ==
    [][pc = "loop" /\ ~failed' =>
         LET t == tick'
         IN  \/ /\ t.swept = <<>>
                /\ t.idle = Step
                /\ t.adv = NoEvent
                /\ elapsed' = elapsed
                /\ freetime' = IF Rollover THEN 0 ELSE freetime + Step
             \/ /\ t.swept # <<>>
                /\ t.idle = 0
                /\ t.adv = t.swept[1][3]
                /\ t.advFrom = elapsed[t.adv]
                /\ t.advTo = elapsed[t.adv] + Step
                /\ elapsed'[t.adv] \in {t.advTo, 0}
                /\ \A e \in Events \ {t.adv} : elapsed'[e] = elapsed[e]
                /\ freetime' = IF Rollover THEN 0 ELSE freetime]_vars

\* C4 witness: free time has been reported in earlier ticks, and the last
\* tick advanced the head of a queue of several events
C4_Witness ==
    /\ freetime > 0
    /\ tick.adv # NoEvent
    /\ tick.idle = 0
    /\ Len(tick.swept) >= 2
    /\ tick.advTo = tick.advFrom + Step

C6_FinalizeResets ==
    [][pc = "loop" /\ ~failed' =>
         \A e \in Events :
            /\ tick'.retired = e => elapsed'[e] = 0 /\ status'[e] = "PENDING"
            /\ elapsed'[e] < elapsed[e] => tick'.retired = e]_vars

\* C6 witness: an Airer has run its whole duration and has been finalized
C6_Witness ==
    /\ tick.retired # NoEvent
    /\ Kind(tick.retired) = "Airer"
    /\ tick.advTo = Duration(conf.events[tick.retired])
    /\ elapsed[tick.retired] = 0
    /\ status[tick.retired] = "PENDING"

\* C7: the next-due timestamp of a daily activity is advanced by exactly one
\* day in the tick that completes it and changes in no other tick, so its
\* time of day is always the configured daily schedule.
C7_DailyAdvance ==
    [][pc = "loop" /\ ~failed' =>
         \A e \in Events :
            IsDaily(conf.events[e]) =>
               /\ sched'[e] = IF tick'.retired = e THEN sched[e] + Day
                              ELSE sched[e]
               /\ sched[e] % Day = conf.events[e].daily
               /\ sched'[e] % Day = conf.events[e].daily]_vars

\* C7 witness: a daily activity completed later than its due time plus its
\* duration (it was delayed or preempted), and its next-due timestamp is the
\* due time of the following day
C7_Witness ==
    /\ tick.retired # NoEvent
    /\ IsDaily(conf.events[tick.retired])
    /\ tick.at + Step > (sched[tick.retired] - Day)
                        + Duration(conf.events[tick.retired])
    /\ sched[tick.retired] % Day = conf.events[tick.retired].daily

\* a Laundry completed in tick t
LaundryCompleted(t, a) ==
    /\ t.retired # NoEvent
    /\ Kind(t.retired) = "Laundry"
    /\ conf.events[t.retired].airer = a

\* times around the timestamp of Airer a, and far from it
ProbeTimes(a) ==
    {0, now, now + Day}
    \cup (IF sched[a] = NoSchedule THEN {}
          ELSE {sched[a] - 1, sched[a], sched[a] + 1, sched[a] + Day})

\* C8: an Airer is un-armed after construction; its schedule changes only
\* when a Laundry completion arms it (notify_washing) and when its finalize
\* un-arms it; is_ready(t) on a PENDING Airer, at the time of every call the
\* scheduler makes and at any other time t, returns true exactly when the
\* Airer is armed with a timestamp T and t >= T, so false at every time while
\* un-armed and false while t < T.
C8_CausalTrigger ==
    [][~failed' =>
         \A a \in Events :
            Kind(a) = "Airer" =>
               /\ pc = "setup" => sched[a] = NoSchedule /\ sched'[a] = NoSchedule
               /\ status[a] = "PENDING" =>
                     \A t \in ProbeTimes(a) :
                        /\ ~AirerIsReady(World, a, t).failed
                        /\ AirerIsReady(World, a, t).ret
                              <=> (sched[a] # NoSchedule /\ t >= sched[a])
               /\ pc = "loop" =>
                     /\ a \in Range(tick'.checked) =>
                           (a \in Range(tick'.admitted)
                              <=> (sched[a] # NoSchedule /\ now >= sched[a]))
                     /\ tick'.retired = a => sched'[a] = NoSchedule
                     /\ sched'[a] # sched[a] =>
                           \/ tick'.retired = a
                           \/ /\ LaundryCompleted(tick', a)
                              /\ sched'[a] = now + Step + WashingDuration]_vars

\* C8 witness: an armed Airer, polled and found not ready a step earlier,
\* is admitted in the tick whose now is its timestamp
C8_Witness ==
    \E a \in Events :
       /\ Kind(a) = "Airer"
       /\ a \in Range(tick.admitted)
       /\ sched[a] = tick.at
       /\ status[a] \in Runnable

\* C9: the breakfast of main() alone (08:00, phases 15, 10, 10, 1-minute
\* ticks): process is called on it in exactly the 35 ticks with now from
\* 08:00 to 08:34, its elapsed progress after each being the minutes since
\* 08:00; it is COMPLETED in the tick that ends at 08:35, and from then on
\* its next-due timestamp is 08:00 of the following day.
C9_BreakfastScenario ==
    (conf.name = "breakfast" /\ pc = "loop" /\ i > 0) =>
       /\ tick.adv = 1 <=> (HHMM(8, 0) <= tick.at /\ tick.at < HHMM(8, 35))
       /\ tick.adv = 1 => tick.advTo = tick.at + Step - HHMM(8, 0)
       /\ tick.advStatus = "COMPLETED" <=> tick.at + Step = HHMM(8, 35)
       /\ tick.retired = 1 <=> tick.at + Step = HHMM(8, 35)
       /\ sched[1] = IF tick.at + Step >= HHMM(8, 35)
                     THEN Day + HHMM(8, 0) ELSE HHMM(8, 0)

\* C9 witness: the tick from 08:34 to 08:35 has completed the breakfast
C9_Witness ==
    /\ conf.name = "breakfast"
    /\ tick.at + Step = HHMM(8, 35)
    /\ tick.retired = 1
    /\ tick.advTo = 35
    /\ <<1, "completed">> \in Range(tick.notes)
    /\ sched[1] = Day + HHMM(8, 0)

\* C10: no starvation, observed on the run of main(): every daily activity,
\* first due and admitted on the first simulated day, has reached COMPLETED
\* and been returned to the waiting list at least once when the loop of
\* main() ends, two days later.
C10_NoStarvation ==
    pc = "done" =>
       \A e \in Events :
          IsDaily(conf.events[e]) =>
             sched[e] > FirstSchedule(conf.events[e], conf.start)

\* the call ended in an error and left the activity as it was
Rejected(e) ==
    failed' /\ status'[e] = status[e] /\ elapsed'[e] = elapsed[e]

\* C11: for an activity of any kind, MilkFeeding included, a call of is_ready
\* in a status other than PENDING, of process in a status other than READY,
\* RUNNING and PAUSED, of pause in a status other than RUNNING (unless pause
\* is the no-op of MilkFeeding) or of finalize in a status other than
\* COMPLETED ends in an error and leaves status and elapsed progress as they
\* were.
C11_ContractViolationsFatal ==
    [][pc = "unit" =>
         \A e \in Events :
            /\ (tick'.checked = <<e>> /\ status[e] # "PENDING") => Rejected(e)
            /\ (tick'.adv = e /\ status[e] \notin Runnable) => Rejected(e)
            /\ ( /\ tick'.paused = e
                 /\ status[e] # "RUNNING"
                 /\ Kind(e) # "MilkFeeding" ) => Rejected(e)
            /\ (tick'.retired = e /\ status[e] # "COMPLETED")
                  => Rejected(e)]_vars

\* the status edges of the state machine; one call of process may take the
\* edge to RUNNING and then the edge from RUNNING to COMPLETED
Edges ==
    [is_ready |-> {<<"PENDING", "READY">>},
     process |-> {<<"READY", "RUNNING">>, <<"PAUSED", "RUNNING">>,
                  <<"RUNNING", "RUNNING">>, <<"RUNNING", "COMPLETED">>,
                  <<"READY", "COMPLETED">>, <<"PAUSED", "COMPLETED">>},
     pause |-> {<<"RUNNING", "PAUSED">>},
     finalize |-> {<<"COMPLETED", "PENDING">>}]

\* the call leaves the status of e as it was or moves it along an edge
Along(edges, e) ==
    status'[e] = status[e] \/ <<status[e], status'[e]>> \in edges

\* C12: for an activity of any kind, a call made in a status its contract
\* allows changes the status only along PENDING->READY (is_ready), READY->RUNNING,
\* PAUSED->RUNNING and RUNNING->COMPLETED (process), RUNNING->PAUSED (pause)
\* and COMPLETED->PENDING (finalize), and changes the status of no other
\* activity; after process an activity that is not COMPLETED is RUNNING.
C12_StatusMachine ==
    [][pc = "unit" /\ ~failed' =>
         \A e \in Events :
            /\ (tick'.checked = <<e>> /\ status[e] = "PENDING")
                  => Along(Edges.is_ready, e)
            /\ (tick'.adv = e /\ status[e] \in Runnable)
                  => <<status[e], status'[e]>> \in Edges.process
            /\ (tick'.paused = e /\ status[e] = "RUNNING")
                  => Along(Edges.pause, e)
            /\ (tick'.retired = e /\ status[e] = "COMPLETED")
                  => Along(Edges.finalize, e)
            /\ ( /\ tick'.checked # <<e>>
                 /\ tick'.adv # e
                 /\ tick'.paused # e
                 /\ tick'.retired # e ) => status'[e] = status[e]]_vars

\* the driver loop is between two calls of EventManager.process
Settled == pc \in {"loop", "done"} /\ ~failed

\* the positions of event e in the waiting list and in the queue
InWaiting(e) == {k \in 1..Len(waiting) : waiting[k] = e}
InQueue(e) == {k \in 1..Len(queue) : queue[k][3] = e}

\* C13: between two calls of EventManager.process every registered activity
\* is at exactly one position of the waiting list and at none of the queue,
\* or at exactly one position of the queue and at none of the waiting list;
\* an activity in the waiting list is PENDING with elapsed progress zero, an
\* activity in the queue is READY, RUNNING or PAUSED.
C13_Partition ==
    Settled =>
       \A e \in Events :
          /\ Cardinality(InWaiting(e)) + Cardinality(InQueue(e)) = 1
          /\ InWaiting(e) # {} => status[e] = "PENDING" /\ elapsed[e] = 0
          /\ InQueue(e) # {} => status[e] \in Runnable

\* C13 witness: the last tick completed an activity, which is back in the
\* waiting list, while a paused activity and another one wait in the queue
C13_Witness ==
    /\ Settled
    /\ tick.retired # NoEvent
    /\ InWaiting(tick.retired) # {}
    /\ Len(queue) >= 2
    /\ \E k \in 1..Len(queue) : status[queue[k][3]] = "PAUSED"

\* C14 as stated: between two calls of EventManager.process, whenever the
\* queue is non-empty the activity marked as running is the head of the
\* queue.
C14_MarkerIsHead ==
    (Settled /\ queue # <<>>) => ongoing = queue[1][3]

\* C14 amended: between two calls of EventManager.process the activity marked as
\* running, if there is one, is the head of the queue; the marked activity
\* is the one the last call advanced, and none is marked when that call
\* completed the activity it advanced or advanced none (in the first case
\* the queue may hold other activities).
C14_RunningMarker ==
    Settled =>
       /\ ongoing # NoEvent => queue # <<>> /\ queue[1][3] = ongoing
       /\ i > 0 =>
             ongoing = IF tick.adv # NoEvent /\ tick.retired = NoEvent
                       THEN tick.adv ELSE NoEvent
       /\ (queue # <<>> /\ ongoing = NoEvent) =>
             tick.retired # NoEvent /\ tick.retired = tick.adv

\* C14 witness: the last tick put a newly admitted activity in the place of
\* the running one, and it is marked and heads a queue of several
C14_Witness ==
    /\ Settled
    /\ ongoing # NoEvent
    /\ tick.paused # NoEvent
    /\ tick.paused # ongoing
    /\ ongoing \in Range(tick.admitted)
    /\ Len(queue) >= 2
    /\ queue[1][3] = ongoing

\* C15: in every tick, when the queue head selected is an activity other
\* than the one marked as running at the start of the tick, pause is called
\* on that one and exactly one intervention is reported; when the head is
\* the marked activity, when none was marked and when the queue is empty,
\* no pause is called and no intervention is reported.
C15_ContextSwitch ==
    [][pc = "loop" /\ ~failed' =>
         IF ongoing # NoEvent /\ HeadOf(tick') \notin {NoEvent, ongoing}
         THEN /\ tick'.paused = ongoing
              /\ tick'.intervened = 1
              /\ interventions' = IF Rollover THEN 0 ELSE interventions + 1
         ELSE /\ tick'.paused = NoEvent
              /\ tick'.intervened = 0
              /\ interventions' = IF Rollover THEN 0 ELSE interventions]_vars

\* how many times notification n is among the notes of tick t
Times(t, n) == Cardinality({k \in 1..Len(t.notes) : t.notes[k] = n})

\* the elapsed progress at which phase k of event e ends
PhaseEnd(e, k) == SumSeq(SubSeq(conf.events[e].durs, 1, k))

PhaseNote(k) == IF k = 1 THEN "phase1" ELSE "phase2"

\* C16: for an activity of any kind, with phase durations that are positive
\* multiples of the step, a process call made in status READY, RUNNING or
\* PAUSED emits the started notification exactly once when it takes the
\* elapsed progress to one step and not otherwise, the notification of a
\* phase boundary exactly once when it takes the elapsed progress to that
\* boundary and not otherwise, the completed notification exactly once when
\* it takes the elapsed progress to the total duration and not otherwise;
\* the status becomes COMPLETED in exactly that call, and the elapsed
\* progress never exceeds the total duration.
C16_PhasesAndCompletion ==
    [][pc = "unit" /\ ~failed' =>
         \A e \in Events :
            (tick'.adv = e /\ status[e] \in Runnable
                /\ elapsed[e] < Duration(conf.events[e])) =>
               /\ elapsed'[e] = elapsed[e] + Step
               /\ elapsed'[e] <= Duration(conf.events[e])
               /\ Times(tick', <<e, "started">>)
                     = IF elapsed'[e] = Step THEN 1 ELSE 0
               /\ \A k \in 1..(Len(conf.events[e].durs) - 1) :
                     Times(tick', <<e, PhaseNote(k)>>)
                        = IF elapsed'[e] = PhaseEnd(e, k) THEN 1 ELSE 0
               /\ Times(tick', <<e, "completed">>)
                     = IF elapsed'[e] = Duration(conf.events[e]) THEN 1 ELSE 0
               /\ status'[e] = "COMPLETED"
                     <=> elapsed'[e] = Duration(conf.events[e])]_vars

Airers == {a \in Events : Kind(a) = "Airer"}

\* C17: the Airer gets a timestamp only in the tick whose process call
\* completes its Laundry, the timestamp being that tick's now + step + 120
\* minutes, and it is then un-armed and waiting (no earlier arming is
\* overwritten); a tick admits the Airer only when its now has reached the
\* timestamp; and every tick whose now has reached the timestamp of a
\* waiting Airer admits it, so that after every tick the Airer admissions
\* are as many as the Laundry completions whose timestamp has been reached.
C17_Handoff ==
    [][pc = "loop" /\ ~failed' =>
         \A a \in Airers :
            /\ LaundryCompleted(tick', a) =>
                  /\ sched'[a] = now + Step + WashingDuration
                  /\ sched[a] = NoSchedule
                  /\ InWaiting(a) # {}
            /\ (sched'[a] # sched[a] /\ sched'[a] # NoSchedule)
                  => LaundryCompleted(tick', a)
            /\ a \in Range(tick'.admitted)
                  => sched[a] # NoSchedule /\ now >= sched[a]
            /\ (InWaiting(a) # {} /\ sched[a] # NoSchedule /\ now >= sched[a])
                  => a \in Range(tick'.admitted)]_vars

\* the activities and the step of main()
IsMain == conf.events = MainEvents /\ Step = 1

\* C18: in the configuration of main() no tick ends in a failed assertion,
\* and every call the EventManager makes is made in a status the method
\* allows: is_ready on PENDING activities, pause on a RUNNING activity or on
\* the MilkFeeding, process on an activity admitted in that tick (READY) or
\* queued as READY, RUNNING or PAUSED, finalize on the activity process has
\* just left COMPLETED.
C18_NoAssertionFails ==
    [][pc = "loop" /\ IsMain =>
         /\ ~failed'
         /\ \A e \in Range(tick'.checked) : status[e] = "PENDING"
         /\ tick'.paused # NoEvent =>
               \/ status[tick'.paused] = "RUNNING"
               \/ Kind(tick'.paused) = "MilkFeeding"
         /\ tick'.adv # NoEvent =>
               \/ tick'.adv \in Range(tick'.admitted)
               \/ InQueue(tick'.adv) # {} /\ status[tick'.adv] \in Runnable
         /\ tick'.retired # NoEvent =>
               /\ tick'.retired = tick'.adv
               /\ tick'.advStatus = "COMPLETED"]_vars

\* C18 witness: a run of main() has reached its end, 4320 ticks, after many
\* admissions and with interventions on its last day
C18_Witness ==
    /\ IsMain
    /\ pc = "done"
    /\ ~failed
    /\ i = TotalTicks
    /\ count >= 2 * Len(conf.events)
    /\ interventions > 0

\* C19: the activity marked as running at the start of a tick is not the
\* head of the queue in that tick only if the head was admitted in that tick
\* and has a strictly smaller priority number; a pause or an intervention
\* report happens only then; when every activity admitted in the tick has an
\* equal or larger priority number, the running activity is the one
\* advanced, nothing is paused and no intervention is reported.
C19_NonPreemptiveAmongEquals ==
    [][pc = "loop" /\ ~failed' /\ ongoing # NoEvent =>
         /\ HeadOf(tick') # ongoing =>
               /\ HeadOf(tick') \in Range(tick'.admitted)
               /\ Priority(HeadOf(tick')) < Priority(ongoing)
         /\ (tick'.paused # NoEvent \/ tick'.intervened > 0) =>
               /\ tick'.paused = ongoing
               /\ HeadOf(tick') \in Range(tick'.admitted)
               /\ Priority(HeadOf(tick')) < Priority(ongoing)
         /\ (\A x \in Range(tick'.admitted) : Priority(x) >= Priority(ongoing))
               => /\ tick'.adv = ongoing
                  /\ tick'.paused = NoEvent
                  /\ tick'.intervened = 0
                  /\ interventions' = IF Rollover THEN 0 ELSE interventions]_vars

\* C19 witness: the last tick admitted an activity of the priority of the
\* running one, and advanced the running one without a pause
C19_Witness ==
    /\ Settled
    /\ tick.startOngoing # NoEvent
    /\ tick.adv = tick.startOngoing
    /\ tick.paused = NoEvent
    /\ tick.intervened = 0
    /\ \E x \in Range(tick.admitted) :
          /\ x # tick.adv
          /\ Priority(x) = Priority(tick.adv)
          /\ status[x] = "READY"

\* C20: in the configuration of main() the tick that admits the MilkFeeding
\* and every tick that finds it in the queue advance it by one minute; it is
\* completed and retired in exactly the tick that takes it to 45 minutes, so
\* a run is 45 consecutive ticks; pause is never called on it; and the
\* feeding count goes up by one in exactly the tick that takes it to 40
\* minutes, once in each run.
C20_FeedingUninterrupted ==
    [][pc = "loop" /\ ~failed' /\ IsMain =>
         \A m \in Events :
            Kind(m) = "MilkFeeding" =>
               /\ m \in Range(tick'.admitted) => elapsed[m] = 0
               /\ (m \in Range(tick'.admitted) \/ InQueue(m) # {}) =>
                     /\ tick'.adv = m
                     /\ tick'.advTo = elapsed[m] + 1
                     /\ tick'.retired = m <=> tick'.advTo = 45
               /\ tick'.paused # m
               /\ feedings' =
                     IF Rollover THEN 0
                     ELSE IF tick'.adv = m /\ tick'.advTo = 40
                          THEN feedings + 1 ELSE feedings]_vars

\* C20 witness: in main() a feeding has just completed its 45 minutes while
\* an activity it displaced waits paused, and it has been counted
C20_Witness ==
    /\ IsMain
    /\ Settled
    /\ tick.retired # NoEvent
    /\ Kind(tick.retired) = "MilkFeeding"
    /\ tick.advTo = 45
    /\ feedings >= 1
    /\ \E k \in 1..Len(queue) : status[queue[k][3]] = "PAUSED"

====
